---------------------------- MODULE Spec2Model ----------------------------
(***************************************************************************)
(* The two 6502 decoders of the dotnes scripts:                            *)
(*   scripts/disasm.py       disasm(data, base, start, end), fmt_operand   *)
(*   scripts/compare_rom.py  disasm(rom, start_file, count), normalize and *)
(*                           the lockstep comparison of main               *)
(* Texts are sequences of one-character strings, so that %-formatting and  *)
(* str.split are computed, not assumed.                                    *)
(***************************************************************************)
EXTENDS Integers, Sequences, FiniteSets, TLC

VARIABLES
    prog,        \* what runs: "disasm" (disasm.py), "compare" (main of compare_rom.py) or
                 \* "calls" (compare_rom.py's disasm called on two ROMs, without main)
    pc,          \* position of the running script
    data,        \* disasm.py: the bytes of the buffer that follow the padding
    pad,         \* disasm.py: number of leading $EA bytes of the buffer (buffer = pad * [$EA] + data)
    base,        \* disasm.py: parameter base
    start,       \* disasm.py: parameter start
    end,         \* disasm.py: parameter end
    i,           \* the cursor of the running decode loop (both scripts)
    out,         \* disasm.py: the lines printed so far, one record per line
    cc65,        \* compare_rom.py: first ROM (the whole file, header included)
    ours,        \* compare_rom.py: second ROM (the whole file, header included)
    start_file,  \* compare_rom.py: parameter start_file of both disasm calls
    count,       \* compare_rom.py: parameter count of both disasm calls (span in main)
    cc65_main,   \* compare_rom.py: lines of disasm(cc65, ...)
    ours_main,   \* compare_rom.py: lines of disasm(ours, ...)
    ci,          \* compare_rom.py: lockstep index into cc65_main
    oi,          \* compare_rom.py: lockstep index into ours_main
    mismatches   \* compare_rom.py: lockstep mismatch counter

vars == <<prog, pc, data, pad, base, start, end, i, out, cc65, ours,
          start_file, count, cc65_main, ours_main, ci, oi, mismatches>>

disasmVars  == <<data, pad, base, start, end, out>>
compareVars == <<cc65, ours, start_file, count, cc65_main, ours_main, ci, oi, mismatches>>

-----------------------------------------------------------------------------
(* Bounds of the model *)

\* longest enumerated byte string after the padding (disasm.py runs)
MaxLen == 3
\* longest enumerated ROM (compare_rom.py's disasm called on its own)
MaxRom == 3
\* longest enumerated byte string after the header (compare_rom.py's main)
MaxBody == 2

(* Program constants *)

\* disasm.py main: disasm(prg, 0x8000, start, end)
PrgBase == 32768
\* disasm.py main: prg = rom[16:16+0x8000]
PrgSize == 32768
\* compare_rom.py disasm: nes = 0x8000 + (i - 16)
NesBase == 32768
\* compare_rom.py disasm: nes = 0x8000 + (i - 16)
HeaderSize == 16
\* compare_rom.py main: prg = [d for d in diffs if 16 <= d[0] < 16+32768]
PrgStart == 16
\* compare_rom.py main: prg = [d for d in diffs if 16 <= d[0] < 16+32768]
PrgBytes == 32768
\* compare_rom.py main: if d[0] - current[-1][0] <= 4
MergeGap == 4
\* compare_rom.py main: span = largest[-1][0] - start_file + 50
Context == 50

-----------------------------------------------------------------------------
(* disasm.py: the opcode table *)

OPCODES ==
    \h00 :> [name |-> <<"B","R","K">>, mode |-> "imp", size |-> 1]
 @@ \h01 :> [name |-> <<"O","R","A">>, mode |-> "inx", size |-> 2]
 @@ \h05 :> [name |-> <<"O","R","A">>, mode |-> "zpg", size |-> 2]
 @@ \h06 :> [name |-> <<"A","S","L">>, mode |-> "zpg", size |-> 2]
 @@ \h08 :> [name |-> <<"P","H","P">>, mode |-> "imp", size |-> 1]
 @@ \h09 :> [name |-> <<"O","R","A">>, mode |-> "imm", size |-> 2]
 @@ \h0A :> [name |-> <<"A","S","L">>, mode |-> "acc", size |-> 1]
 @@ \h0D :> [name |-> <<"O","R","A">>, mode |-> "abs", size |-> 3]
 @@ \h0E :> [name |-> <<"A","S","L">>, mode |-> "abs", size |-> 3]
 @@ \h10 :> [name |-> <<"B","P","L">>, mode |-> "rel", size |-> 2]
 @@ \h11 :> [name |-> <<"O","R","A">>, mode |-> "iny", size |-> 2]
 @@ \h15 :> [name |-> <<"O","R","A">>, mode |-> "zpx", size |-> 2]
 @@ \h16 :> [name |-> <<"A","S","L">>, mode |-> "zpx", size |-> 2]
 @@ \h18 :> [name |-> <<"C","L","C">>, mode |-> "imp", size |-> 1]
 @@ \h19 :> [name |-> <<"O","R","A">>, mode |-> "aby", size |-> 3]
 @@ \h1D :> [name |-> <<"O","R","A">>, mode |-> "abx", size |-> 3]
 @@ \h1E :> [name |-> <<"A","S","L">>, mode |-> "abx", size |-> 3]
 @@ \h20 :> [name |-> <<"J","S","R">>, mode |-> "abs", size |-> 3]
 @@ \h21 :> [name |-> <<"A","N","D">>, mode |-> "inx", size |-> 2]
 @@ \h24 :> [name |-> <<"B","I","T">>, mode |-> "zpg", size |-> 2]
 @@ \h25 :> [name |-> <<"A","N","D">>, mode |-> "zpg", size |-> 2]
 @@ \h26 :> [name |-> <<"R","O","L">>, mode |-> "zpg", size |-> 2]
 @@ \h28 :> [name |-> <<"P","L","P">>, mode |-> "imp", size |-> 1]
 @@ \h29 :> [name |-> <<"A","N","D">>, mode |-> "imm", size |-> 2]
 @@ \h2A :> [name |-> <<"R","O","L">>, mode |-> "acc", size |-> 1]
 @@ \h2C :> [name |-> <<"B","I","T">>, mode |-> "abs", size |-> 3]
 @@ \h2D :> [name |-> <<"A","N","D">>, mode |-> "abs", size |-> 3]
 @@ \h2E :> [name |-> <<"R","O","L">>, mode |-> "abs", size |-> 3]
 @@ \h30 :> [name |-> <<"B","M","I">>, mode |-> "rel", size |-> 2]
 @@ \h31 :> [name |-> <<"A","N","D">>, mode |-> "iny", size |-> 2]
 @@ \h35 :> [name |-> <<"A","N","D">>, mode |-> "zpx", size |-> 2]
 @@ \h36 :> [name |-> <<"R","O","L">>, mode |-> "zpx", size |-> 2]
 @@ \h38 :> [name |-> <<"S","E","C">>, mode |-> "imp", size |-> 1]
 @@ \h39 :> [name |-> <<"A","N","D">>, mode |-> "aby", size |-> 3]
 @@ \h3D :> [name |-> <<"A","N","D">>, mode |-> "abx", size |-> 3]
 @@ \h3E :> [name |-> <<"R","O","L">>, mode |-> "abx", size |-> 3]
 @@ \h40 :> [name |-> <<"R","T","I">>, mode |-> "imp", size |-> 1]
 @@ \h41 :> [name |-> <<"E","O","R">>, mode |-> "inx", size |-> 2]
 @@ \h45 :> [name |-> <<"E","O","R">>, mode |-> "zpg", size |-> 2]
 @@ \h46 :> [name |-> <<"L","S","R">>, mode |-> "zpg", size |-> 2]
 @@ \h48 :> [name |-> <<"P","H","A">>, mode |-> "imp", size |-> 1]
 @@ \h49 :> [name |-> <<"E","O","R">>, mode |-> "imm", size |-> 2]
 @@ \h4A :> [name |-> <<"L","S","R">>, mode |-> "acc", size |-> 1]
 @@ \h4C :> [name |-> <<"J","M","P">>, mode |-> "abs", size |-> 3]
 @@ \h4D :> [name |-> <<"E","O","R">>, mode |-> "abs", size |-> 3]
 @@ \h4E :> [name |-> <<"L","S","R">>, mode |-> "abs", size |-> 3]
 @@ \h50 :> [name |-> <<"B","V","C">>, mode |-> "rel", size |-> 2]
 @@ \h51 :> [name |-> <<"E","O","R">>, mode |-> "iny", size |-> 2]
 @@ \h55 :> [name |-> <<"E","O","R">>, mode |-> "zpx", size |-> 2]
 @@ \h56 :> [name |-> <<"L","S","R">>, mode |-> "zpx", size |-> 2]
 @@ \h58 :> [name |-> <<"C","L","I">>, mode |-> "imp", size |-> 1]
 @@ \h59 :> [name |-> <<"E","O","R">>, mode |-> "aby", size |-> 3]
 @@ \h5D :> [name |-> <<"E","O","R">>, mode |-> "abx", size |-> 3]
 @@ \h5E :> [name |-> <<"L","S","R">>, mode |-> "abx", size |-> 3]
 @@ \h60 :> [name |-> <<"R","T","S">>, mode |-> "imp", size |-> 1]
 @@ \h61 :> [name |-> <<"A","D","C">>, mode |-> "inx", size |-> 2]
 @@ \h65 :> [name |-> <<"A","D","C">>, mode |-> "zpg", size |-> 2]
 @@ \h66 :> [name |-> <<"R","O","R">>, mode |-> "zpg", size |-> 2]
 @@ \h68 :> [name |-> <<"P","L","A">>, mode |-> "imp", size |-> 1]
 @@ \h69 :> [name |-> <<"A","D","C">>, mode |-> "imm", size |-> 2]
 @@ \h6A :> [name |-> <<"R","O","R">>, mode |-> "acc", size |-> 1]
 @@ \h6C :> [name |-> <<"J","M","P">>, mode |-> "ind", size |-> 3]
 @@ \h6D :> [name |-> <<"A","D","C">>, mode |-> "abs", size |-> 3]
 @@ \h6E :> [name |-> <<"R","O","R">>, mode |-> "abs", size |-> 3]
 @@ \h70 :> [name |-> <<"B","V","S">>, mode |-> "rel", size |-> 2]
 @@ \h71 :> [name |-> <<"A","D","C">>, mode |-> "iny", size |-> 2]
 @@ \h75 :> [name |-> <<"A","D","C">>, mode |-> "zpx", size |-> 2]
 @@ \h76 :> [name |-> <<"R","O","R">>, mode |-> "zpx", size |-> 2]
 @@ \h78 :> [name |-> <<"S","E","I">>, mode |-> "imp", size |-> 1]
 @@ \h79 :> [name |-> <<"A","D","C">>, mode |-> "aby", size |-> 3]
 @@ \h7D :> [name |-> <<"A","D","C">>, mode |-> "abx", size |-> 3]
 @@ \h7E :> [name |-> <<"R","O","R">>, mode |-> "abx", size |-> 3]
 @@ \h81 :> [name |-> <<"S","T","A">>, mode |-> "inx", size |-> 2]
 @@ \h84 :> [name |-> <<"S","T","Y">>, mode |-> "zpg", size |-> 2]
 @@ \h85 :> [name |-> <<"S","T","A">>, mode |-> "zpg", size |-> 2]
 @@ \h86 :> [name |-> <<"S","T","X">>, mode |-> "zpg", size |-> 2]
 @@ \h88 :> [name |-> <<"D","E","Y">>, mode |-> "imp", size |-> 1]
 @@ \h8A :> [name |-> <<"T","X","A">>, mode |-> "imp", size |-> 1]
 @@ \h8C :> [name |-> <<"S","T","Y">>, mode |-> "abs", size |-> 3]
 @@ \h8D :> [name |-> <<"S","T","A">>, mode |-> "abs", size |-> 3]
 @@ \h8E :> [name |-> <<"S","T","X">>, mode |-> "abs", size |-> 3]
 @@ \h90 :> [name |-> <<"B","C","C">>, mode |-> "rel", size |-> 2]
 @@ \h91 :> [name |-> <<"S","T","A">>, mode |-> "iny", size |-> 2]
 @@ \h94 :> [name |-> <<"S","T","Y">>, mode |-> "zpx", size |-> 2]
 @@ \h95 :> [name |-> <<"S","T","A">>, mode |-> "zpx", size |-> 2]
 @@ \h96 :> [name |-> <<"S","T","X">>, mode |-> "zpy", size |-> 2]
 @@ \h98 :> [name |-> <<"T","Y","A">>, mode |-> "imp", size |-> 1]
 @@ \h99 :> [name |-> <<"S","T","A">>, mode |-> "aby", size |-> 3]
 @@ \h9A :> [name |-> <<"T","X","S">>, mode |-> "imp", size |-> 1]
 @@ \h9D :> [name |-> <<"S","T","A">>, mode |-> "abx", size |-> 3]
 @@ \hA0 :> [name |-> <<"L","D","Y">>, mode |-> "imm", size |-> 2]
 @@ \hA1 :> [name |-> <<"L","D","A">>, mode |-> "inx", size |-> 2]
 @@ \hA2 :> [name |-> <<"L","D","X">>, mode |-> "imm", size |-> 2]
 @@ \hA4 :> [name |-> <<"L","D","Y">>, mode |-> "zpg", size |-> 2]
 @@ \hA5 :> [name |-> <<"L","D","A">>, mode |-> "zpg", size |-> 2]
 @@ \hA6 :> [name |-> <<"L","D","X">>, mode |-> "zpg", size |-> 2]
 @@ \hA8 :> [name |-> <<"T","A","Y">>, mode |-> "imp", size |-> 1]
 @@ \hA9 :> [name |-> <<"L","D","A">>, mode |-> "imm", size |-> 2]
 @@ \hAA :> [name |-> <<"T","A","X">>, mode |-> "imp", size |-> 1]
 @@ \hAC :> [name |-> <<"L","D","Y">>, mode |-> "abs", size |-> 3]
 @@ \hAD :> [name |-> <<"L","D","A">>, mode |-> "abs", size |-> 3]
 @@ \hAE :> [name |-> <<"L","D","X">>, mode |-> "abs", size |-> 3]
 @@ \hB0 :> [name |-> <<"B","C","S">>, mode |-> "rel", size |-> 2]
 @@ \hB1 :> [name |-> <<"L","D","A">>, mode |-> "iny", size |-> 2]
 @@ \hB4 :> [name |-> <<"L","D","Y">>, mode |-> "zpx", size |-> 2]
 @@ \hB5 :> [name |-> <<"L","D","A">>, mode |-> "zpx", size |-> 2]
 @@ \hB6 :> [name |-> <<"L","D","X">>, mode |-> "zpy", size |-> 2]
 @@ \hB8 :> [name |-> <<"C","L","V">>, mode |-> "imp", size |-> 1]
 @@ \hB9 :> [name |-> <<"L","D","A">>, mode |-> "aby", size |-> 3]
 @@ \hBA :> [name |-> <<"T","S","X">>, mode |-> "imp", size |-> 1]
 @@ \hBC :> [name |-> <<"L","D","Y">>, mode |-> "abx", size |-> 3]
 @@ \hBD :> [name |-> <<"L","D","A">>, mode |-> "abx", size |-> 3]
 @@ \hBE :> [name |-> <<"L","D","X">>, mode |-> "aby", size |-> 3]
 @@ \hC0 :> [name |-> <<"C","P","Y">>, mode |-> "imm", size |-> 2]
 @@ \hC1 :> [name |-> <<"C","M","P">>, mode |-> "inx", size |-> 2]
 @@ \hC4 :> [name |-> <<"C","P","Y">>, mode |-> "zpg", size |-> 2]
 @@ \hC5 :> [name |-> <<"C","M","P">>, mode |-> "zpg", size |-> 2]
 @@ \hC6 :> [name |-> <<"D","E","C">>, mode |-> "zpg", size |-> 2]
 @@ \hC8 :> [name |-> <<"I","N","Y">>, mode |-> "imp", size |-> 1]
 @@ \hC9 :> [name |-> <<"C","M","P">>, mode |-> "imm", size |-> 2]
 @@ \hCA :> [name |-> <<"D","E","X">>, mode |-> "imp", size |-> 1]
 @@ \hCC :> [name |-> <<"C","P","Y">>, mode |-> "abs", size |-> 3]
 @@ \hCD :> [name |-> <<"C","M","P">>, mode |-> "abs", size |-> 3]
 @@ \hCE :> [name |-> <<"D","E","C">>, mode |-> "abs", size |-> 3]
 @@ \hD0 :> [name |-> <<"B","N","E">>, mode |-> "rel", size |-> 2]
 @@ \hD1 :> [name |-> <<"C","M","P">>, mode |-> "iny", size |-> 2]
 @@ \hD5 :> [name |-> <<"C","M","P">>, mode |-> "zpx", size |-> 2]
 @@ \hD6 :> [name |-> <<"D","E","C">>, mode |-> "zpx", size |-> 2]
 @@ \hD8 :> [name |-> <<"C","L","D">>, mode |-> "imp", size |-> 1]
 @@ \hD9 :> [name |-> <<"C","M","P">>, mode |-> "aby", size |-> 3]
 @@ \hDD :> [name |-> <<"C","M","P">>, mode |-> "abx", size |-> 3]
 @@ \hDE :> [name |-> <<"D","E","C">>, mode |-> "abx", size |-> 3]
 @@ \hE0 :> [name |-> <<"C","P","X">>, mode |-> "imm", size |-> 2]
 @@ \hE1 :> [name |-> <<"S","B","C">>, mode |-> "inx", size |-> 2]
 @@ \hE4 :> [name |-> <<"C","P","X">>, mode |-> "zpg", size |-> 2]
 @@ \hE5 :> [name |-> <<"S","B","C">>, mode |-> "zpg", size |-> 2]
 @@ \hE6 :> [name |-> <<"I","N","C">>, mode |-> "zpg", size |-> 2]
 @@ \hE8 :> [name |-> <<"I","N","X">>, mode |-> "imp", size |-> 1]
 @@ \hE9 :> [name |-> <<"S","B","C">>, mode |-> "imm", size |-> 2]
 @@ \hEA :> [name |-> <<"N","O","P">>, mode |-> "imp", size |-> 1]
 @@ \hEC :> [name |-> <<"C","P","X">>, mode |-> "abs", size |-> 3]
 @@ \hED :> [name |-> <<"S","B","C">>, mode |-> "abs", size |-> 3]
 @@ \hEE :> [name |-> <<"I","N","C">>, mode |-> "abs", size |-> 3]
 @@ \hF0 :> [name |-> <<"B","E","Q">>, mode |-> "rel", size |-> 2]
 @@ \hF1 :> [name |-> <<"S","B","C">>, mode |-> "iny", size |-> 2]
 @@ \hF5 :> [name |-> <<"S","B","C">>, mode |-> "zpx", size |-> 2]
 @@ \hF6 :> [name |-> <<"I","N","C">>, mode |-> "zpx", size |-> 2]
 @@ \hF8 :> [name |-> <<"S","E","D">>, mode |-> "imp", size |-> 1]
 @@ \hF9 :> [name |-> <<"S","B","C">>, mode |-> "aby", size |-> 3]
 @@ \hFD :> [name |-> <<"S","B","C">>, mode |-> "abx", size |-> 3]
 @@ \hFE :> [name |-> <<"I","N","C">>, mode |-> "abx", size |-> 3]

-----------------------------------------------------------------------------
(* compare_rom.py: the length table and the name table *)

\* oplen = [1]*256, then the assignments of lines 8-15 (the last one wins)
oplen ==
    [op \in 0..255 |->
        IF op = \h6C THEN 3
        ELSE IF op \in {\h15,\h16,\h35,\h36,\h55,\h56,\h75,\h76,\h94,\h95,\h96,\hB4,\hB5,\hB6,\hD5,\hD6,\hF5,\hF6} THEN 2
        ELSE IF op \in {\h1D,\h19,\h3D,\h39,\h5D,\h59,\h7D,\h79,\h9D,\h99,\hBD,\hB9,\hBC,\hBE,\hDD,\hD9,\hFD,\hF9} THEN 3
        ELSE IF op \in {\h91,\hB1,\h11,\h31,\h51,\h71,\hD1,\hF1} THEN 2
        ELSE IF op \in {\h10,\h30,\h50,\h70,\h90,\hB0,\hD0,\hF0} THEN 2
        ELSE IF op \in {\h0D,\h0E,\h20,\h2C,\h2D,\h2E,\h4C,\h4D,\h4E,\h6D,\h6E,\h8C,\h8D,\h8E,\hAC,\hAD,\hAE,\hCC,\hCD,\hCE,\hEC,\hED,\hEE} THEN 3
        ELSE IF op \in {\h05,\h06,\h24,\h25,\h26,\h45,\h46,\h65,\h66,\h84,\h85,\h86,\hA4,\hA5,\hA6,\hC4,\hC5,\hC6,\hE4,\hE5,\hE6} THEN 2
        ELSE IF op \in {\h09,\h29,\h49,\h69,\hA0,\hA2,\hA9,\hC0,\hC9,\hE0,\hE9} THEN 2
        ELSE 1]

names ==
    \h00 :> <<"B","R","K">>
 @@ \h05 :> <<"O","R","A","_","z">>
 @@ \h06 :> <<"A","S","L","_","z">>
 @@ \h08 :> <<"P","H","P">>
 @@ \h09 :> <<"O","R","A","#">>
 @@ \h0A :> <<"A","S","L">>
 @@ \h0D :> <<"O","R","A">>
 @@ \h0E :> <<"A","S","L">>
 @@ \h10 :> <<"B","P","L">>
 @@ \h11 :> <<"O","R","A","(","y",")">>
 @@ \h15 :> <<"O","R","A","_","z","x">>
 @@ \h16 :> <<"A","S","L","_","z","x">>
 @@ \h18 :> <<"C","L","C">>
 @@ \h19 :> <<"O","R","A","_","y">>
 @@ \h1D :> <<"O","R","A","_","x">>
 @@ \h20 :> <<"J","S","R">>
 @@ \h24 :> <<"B","I","T","_","z">>
 @@ \h25 :> <<"A","N","D","_","z">>
 @@ \h26 :> <<"R","O","L","_","z">>
 @@ \h28 :> <<"P","L","P">>
 @@ \h29 :> <<"A","N","D","#">>
 @@ \h2A :> <<"R","O","L">>
 @@ \h2C :> <<"B","I","T">>
 @@ \h2D :> <<"A","N","D">>
 @@ \h2E :> <<"R","O","L">>
 @@ \h30 :> <<"B","M","I">>
 @@ \h31 :> <<"A","N","D","(","y",")">>
 @@ \h35 :> <<"A","N","D","_","z","x">>
 @@ \h36 :> <<"R","O","L","_","z","x">>
 @@ \h38 :> <<"S","E","C">>
 @@ \h39 :> <<"A","N","D","_","y">>
 @@ \h3D :> <<"A","N","D","_","x">>
 @@ \h40 :> <<"R","T","I">>
 @@ \h45 :> <<"E","O","R","_","z">>
 @@ \h46 :> <<"L","S","R","_","z">>
 @@ \h48 :> <<"P","H","A">>
 @@ \h49 :> <<"E","O","R","#">>
 @@ \h4A :> <<"L","S","R">>
 @@ \h4C :> <<"J","M","P">>
 @@ \h4D :> <<"E","O","R">>
 @@ \h4E :> <<"L","S","R">>
 @@ \h50 :> <<"B","V","C">>
 @@ \h51 :> <<"E","O","R","(","y",")">>
 @@ \h55 :> <<"E","O","R","_","z","x">>
 @@ \h56 :> <<"L","S","R","_","z","x">>
 @@ \h58 :> <<"C","L","I">>
 @@ \h59 :> <<"E","O","R","_","y">>
 @@ \h5D :> <<"E","O","R","_","x">>
 @@ \h60 :> <<"R","T","S">>
 @@ \h65 :> <<"A","D","C","_","z">>
 @@ \h66 :> <<"R","O","R","_","z">>
 @@ \h68 :> <<"P","L","A">>
 @@ \h69 :> <<"A","D","C","#">>
 @@ \h6A :> <<"R","O","R">>
 @@ \h6C :> <<"J","M","P","_","i">>
 @@ \h6D :> <<"A","D","C">>
 @@ \h6E :> <<"R","O","R">>
 @@ \h70 :> <<"B","V","S">>
 @@ \h71 :> <<"A","D","C","(","y",")">>
 @@ \h75 :> <<"A","D","C","_","z","x">>
 @@ \h76 :> <<"R","O","R","_","z","x">>
 @@ \h78 :> <<"S","E","I">>
 @@ \h79 :> <<"A","D","C","_","y">>
 @@ \h7D :> <<"A","D","C","_","x">>
 @@ \h84 :> <<"S","T","Y","_","z">>
 @@ \h85 :> <<"S","T","A","_","z">>
 @@ \h86 :> <<"S","T","X","_","z">>
 @@ \h88 :> <<"D","E","Y">>
 @@ \h8A :> <<"T","X","A">>
 @@ \h8C :> <<"S","T","Y">>
 @@ \h8D :> <<"S","T","A">>
 @@ \h8E :> <<"S","T","X">>
 @@ \h90 :> <<"B","C","C">>
 @@ \h91 :> <<"S","T","A","(","y",")">>
 @@ \h94 :> <<"S","T","Y","_","z","x">>
 @@ \h95 :> <<"S","T","A","_","z","x">>
 @@ \h96 :> <<"S","T","X","_","z","y">>
 @@ \h98 :> <<"T","Y","A">>
 @@ \h99 :> <<"S","T","A","_","y">>
 @@ \h9A :> <<"T","X","S">>
 @@ \h9D :> <<"S","T","A","_","x">>
 @@ \hA0 :> <<"L","D","Y","#">>
 @@ \hA2 :> <<"L","D","X","#">>
 @@ \hA4 :> <<"L","D","Y","_","z">>
 @@ \hA5 :> <<"L","D","A","_","z">>
 @@ \hA6 :> <<"L","D","X","_","z">>
 @@ \hA8 :> <<"T","A","Y">>
 @@ \hA9 :> <<"L","D","A","#">>
 @@ \hAA :> <<"T","A","X">>
 @@ \hAC :> <<"L","D","Y">>
 @@ \hAD :> <<"L","D","A">>
 @@ \hAE :> <<"L","D","X">>
 @@ \hB0 :> <<"B","C","S">>
 @@ \hB1 :> <<"L","D","A","(","y",")">>
 @@ \hB4 :> <<"L","D","Y","_","z","x">>
 @@ \hB5 :> <<"L","D","A","_","z","x">>
 @@ \hB6 :> <<"L","D","X","_","z","y">>
 @@ \hB8 :> <<"C","L","V">>
 @@ \hB9 :> <<"L","D","A","_","y">>
 @@ \hBA :> <<"T","S","X">>
 @@ \hBC :> <<"L","D","Y","_","x">>
 @@ \hBD :> <<"L","D","A","_","x">>
 @@ \hBE :> <<"L","D","X","_","y">>
 @@ \hC0 :> <<"C","P","Y","#">>
 @@ \hC4 :> <<"C","P","Y","_","z">>
 @@ \hC5 :> <<"C","M","P","_","z">>
 @@ \hC6 :> <<"D","E","C","_","z">>
 @@ \hC8 :> <<"I","N","Y">>
 @@ \hC9 :> <<"C","M","P","#">>
 @@ \hCA :> <<"D","E","X">>
 @@ \hCC :> <<"C","P","Y">>
 @@ \hCD :> <<"C","M","P">>
 @@ \hCE :> <<"D","E","C">>
 @@ \hD0 :> <<"B","N","E">>
 @@ \hD1 :> <<"C","M","P","(","y",")">>
 @@ \hD5 :> <<"C","M","P","_","z","x">>
 @@ \hD6 :> <<"D","E","C","_","z","x">>
 @@ \hD8 :> <<"C","L","D">>
 @@ \hD9 :> <<"C","M","P","_","y">>
 @@ \hDD :> <<"C","M","P","_","x">>
 @@ \hE0 :> <<"C","P","X","#">>
 @@ \hE4 :> <<"C","P","X","_","z">>
 @@ \hE5 :> <<"S","B","C","_","z">>
 @@ \hE6 :> <<"I","N","C","_","z">>
 @@ \hE8 :> <<"I","N","X">>
 @@ \hE9 :> <<"S","B","C","#">>
 @@ \hEA :> <<"N","O","P">>
 @@ \hEC :> <<"C","P","X">>
 @@ \hED :> <<"S","B","C">>
 @@ \hEE :> <<"I","N","C">>
 @@ \hF0 :> <<"B","E","Q">>
 @@ \hF1 :> <<"S","B","C","(","y",")">>
 @@ \hF5 :> <<"S","B","C","_","z","x">>
 @@ \hF6 :> <<"I","N","C","_","z","x">>
 @@ \hF8 :> <<"S","E","D">>
 @@ \hF9 :> <<"S","B","C","_","y">>
 @@ \hFD :> <<"S","B","C","_","x">>

-----------------------------------------------------------------------------
(* Python's text primitives, on sequences of one-character strings *)

HexChars == <<"0","1","2","3","4","5","6","7","8","9","A","B","C","D","E","F">>

\* the digits of '%X' % n for n >= 0
RECURSIVE HexDigits(_)
HexDigits(n) ==
    IF n < 16 THEN <<HexChars[n + 1]>>
    ELSE HexDigits(n \div 16) \o <<HexChars[(n % 16) + 1]>>

\* left padding with "0" to a minimum width (never truncates)
RECURSIVE ZeroPad(_, _)
ZeroPad(s, w) == IF Len(s) >= w THEN s ELSE ZeroPad(<<"0">> \o s, w)

\* '%0wX' % v: the sign of a negative value counts in the width
FmtX(v, w) ==
    IF v >= 0 THEN ZeroPad(HexDigits(v), w)
    ELSE <<"-">> \o ZeroPad(HexDigits(-v), w - 1)

\* '%-ws' % s
RECURSIVE LJust(_, _)
LJust(s, w) == IF Len(s) >= w THEN s ELSE LJust(s \o <<" ">>, w)

\* ' '.join('%02X' % b for b in raw)
RECURSIVE JoinHex(_)
JoinHex(raw) ==
    IF raw = <<>> THEN <<>>
    ELSE IF Len(raw) = 1 THEN FmtX(raw[1], 2)
    ELSE FmtX(raw[1], 2) \o <<" ">> \o JoinHex(Tail(raw))

RECURSIVE SkipSpaces(_)
SkipSpaces(s) ==
    IF s # <<>> /\ s[1] = " " THEN SkipSpaces(Tail(s)) ELSE s

RECURSIVE TakeWord(_)
TakeWord(s) ==
    IF s = <<>> \/ s[1] = " " THEN <<>> ELSE <<s[1]>> \o TakeWord(Tail(s))

\* str.split(): the maximal runs of non-blank characters
RECURSIVE Split(_)
Split(s) ==
    LET t == SkipSpaces(s) IN
    IF t = <<>> THEN <<>>
    ELSE LET w == TakeWord(t) IN <<w>> \o Split(SubSeq(t, Len(w) + 1, Len(t)))

-----------------------------------------------------------------------------
(* disasm.py: fmt_operand *)

\* RelTarget with the operand byte taken as unsigned
RelTargetUnsigned(val, addr) == addr + 2 + val

\* signed = val if val < 128 else val - 256; target = addr + 2 + signed
RelTarget(val, addr) ==
    LET signed == IF val < 128 THEN val ELSE val - 256
    IN  addr + 2 + signed

fmt_operand(mode, val, addr) ==
    IF mode = "imp" \/ mode = "acc" THEN <<>>
    ELSE IF mode = "imm" THEN <<" ", "#", "$">> \o FmtX(val, 2)
    ELSE IF mode = "zpg" THEN <<" ", "$">> \o FmtX(val, 2)
    ELSE IF mode = "zpx" THEN <<" ", "$">> \o FmtX(val, 2) \o <<",", "X">>
    ELSE IF mode = "zpy" THEN <<" ", "$">> \o FmtX(val, 2) \o <<",", "Y">>
    ELSE IF mode = "abs" THEN <<" ", "$">> \o FmtX(val, 4)
    ELSE IF mode = "abx" THEN <<" ", "$">> \o FmtX(val, 4) \o <<",", "X">>
    ELSE IF mode = "aby" THEN <<" ", "$">> \o FmtX(val, 4) \o <<",", "Y">>
    ELSE IF mode = "ind" THEN <<" ", "(", "$">> \o FmtX(val, 4) \o <<")">>
    ELSE IF mode = "inx" THEN <<" ", "(", "$">> \o FmtX(val, 2) \o <<",", "X", ")">>
    ELSE IF mode = "iny" THEN <<" ", "(", "$">> \o FmtX(val, 2) \o <<")", ",", "Y">>
    ELSE IF mode = "rel" THEN <<" ", "$">> \o FmtX(RelTarget(val, addr), 4)
    ELSE <<" ", "?", "?", "?">>

-----------------------------------------------------------------------------
(* compare_rom.py: normalize *)

\* the mnemonics whose 4-digit operand is replaced
NormalizedNames ==
    {
      <<"J","S","R">>, <<"J","M","P">>, <<"S","T","A">>, <<"S","T","X">>,
      <<"S","T","Y">>, <<"L","D","A">>, <<"L","D","X">>, <<"L","D","Y">>,
      <<"I","N","C">>, <<"D","E","C">>, <<"C","M","P">>, <<"B","I","T">>,
      <<"O","R","A">>, <<"A","N","D">>, <<"E","O","R">>, <<"A","D","C">>,
      <<"S","B","C">>, <<"A","S","L">>, <<"R","O","L">>, <<"L","S","R">>,
      <<"R","O","R">>, <<"J","M","P","_","i">>, <<"S","T","A","_","x">>, <<"L","D","A","_","x">>,
      <<"S","T","A","_","y">>, <<"L","D","A","_","y">>
    }

\* normalize with the wildcards put in front of the first three digits
normalizeShift(inst_text) ==
    LET parts == Split(inst_text) IN
    IF /\ Len(parts) = 2
       /\ parts[2][1] = "$"
       /\ Len(parts[2]) = 5
       /\ parts[1] \in NormalizedNames
    THEN parts[1] \o <<" ", "$", "?">> \o SubSeq(parts[2], 2, 4)
    ELSE inst_text

normalize(inst_text) ==
    LET parts == Split(inst_text) IN
    IF /\ Len(parts) = 2
       /\ parts[2][1] = "$"
       /\ Len(parts[2]) = 5
       /\ parts[1] \in NormalizedNames
    THEN parts[1] \o <<" ", "$", "?", "?", "?", "?">>
    ELSE inst_text

-----------------------------------------------------------------------------
(* disasm.py: the buffer, with Python's indexing and slicing *)

\* len(data)
DataLen == pad + Len(data)

\* the byte at offset k, 0 <= k < len(data)
DataAt(k) == IF k < pad THEN \hEA ELSE data[k - pad + 1]

\* data[k] raises IndexError unless -len(data) <= k < len(data)
IndexOK(k) == -DataLen <= k /\ k < DataLen

\* data[k]: a negative index counts from the end
GetItem(k) == DataAt(IF k < 0 THEN k + DataLen ELSE k)

\* a slice bound: negative bounds count from the end, then clamped to 0..len(data)
SliceBound(k) ==
    LET n == IF k < 0 THEN k + DataLen ELSE k
    IN  IF n < 0 THEN 0 ELSE IF n > DataLen THEN DataLen ELSE n

\* GetSlice with the slice one byte short: data[a:b-1]
GetSliceShort(a, b) ==
    LET lo == SliceBound(a)
        hi == SliceBound(b - 1)
    IN  IF hi <= lo THEN <<>> ELSE [j \in 1..(hi - lo) |-> DataAt(lo + j - 1)]

\* data[a:b]
GetSlice(a, b) ==
    LET lo == SliceBound(a)
        hi == SliceBound(b)
    IN  IF hi <= lo THEN <<>> ELSE [j \in 1..(hi - lo) |-> DataAt(lo + j - 1)]

-----------------------------------------------------------------------------
(* disasm.py: disasm(data, base, start, end), one action per loop iteration *)

\* stop = end - base
stop == end - base

\* LoopCond with "or" for "and"
LoopCondEither == i < stop \/ i < DataLen

\* while i < stop and i < len(data)
LoopCond == i < stop /\ i < DataLen

\* InstrAddr without the base
InstrAddrOffset == i

\* addr = base + i
InstrAddr == base + i

\* the reads data[i+1], data[i+2] of lines 108-111 succeed
OperandReadable(size) ==
    IF size = 1 THEN TRUE
    ELSE IF size = 2 THEN IndexOK(i + 1)
    ELSE IndexOK(i + 1) /\ IndexOK(i + 2)

\* val of lines 106-111
OperandValue(size) ==
    IF size = 1 THEN 0
    ELSE IF size = 2 THEN GetItem(i + 1)
    ELSE GetItem(i + 1) + 256 * GetItem(i + 2)

\* the line printed for an opcode of the table (lines 103-113), with the
\* locals it is printed from: addr, op, raw, name, mode, val, operand, size
KnownLine(op) ==
    LET e       == OPCODES[op]
        raw     == GetSlice(i, i + e.size)
        hexstr  == JoinHex(raw)
        operand == fmt_operand(e.mode, OperandValue(e.size), InstrAddr)
    IN  [addr    |-> InstrAddr,
         op      |-> op,
         raw     |-> raw,
         name    |-> e.name,
         mode    |-> e.mode,
         val     |-> OperandValue(e.size),
         operand |-> operand,
         size    |-> e.size,
         text    |-> <<"$">> \o FmtX(InstrAddr, 4) \o <<":", " ">> \o LJust(hexstr, 9)
                     \o <<" ">> \o e.name \o operand]

\* the line printed for a byte with no entry (line 116); val is the byte
\* printed after ".byte $"
UnknownLine(op) ==
    [addr    |-> InstrAddr,
     op      |-> op,
     raw     |-> <<op>>,
     name    |-> <<".", "b", "y", "t", "e">>,
     mode    |-> "data",
     val     |-> op,
     operand |-> <<" ", "$">> \o FmtX(op, 2),
     size    |-> 1,
     text    |-> <<"$">> \o FmtX(InstrAddr, 4) \o <<":", " ">> \o FmtX(op, 2)
                 \o <<" ", " ", " ", " ", " ", " ", " ", " ">>
                 \o <<".", "b", "y", "t", "e", " ", "$">> \o FmtX(op, 2)]

\* i += size (line 114)
AdvanceKnown(size) == i + size

\* AdvanceUnknown without the increment
AdvanceUnknownStuck == i

\* i += 1 (line 117)
AdvanceUnknown == i + 1

\* an iteration that prints an instruction of the table
DisasmKnown ==
    /\ prog = "disasm" /\ pc = "loop"
    /\ LoopCond
    /\ IndexOK(i)
    /\ GetItem(i) \in DOMAIN OPCODES
    /\ OperandReadable(OPCODES[GetItem(i)].size)
    /\ out' = Append(out, KnownLine(GetItem(i)))
    /\ i' = AdvanceKnown(OPCODES[GetItem(i)].size)
    /\ UNCHANGED <<prog, pc, data, pad, base, start, end>>
    /\ UNCHANGED compareVars

\* an iteration that prints a .byte line
DisasmUnknown ==
    /\ prog = "disasm" /\ pc = "loop"
    /\ LoopCond
    /\ IndexOK(i)
    /\ GetItem(i) \notin DOMAIN OPCODES
    /\ out' = Append(out, UnknownLine(GetItem(i)))
    /\ i' = AdvanceUnknown
    /\ UNCHANGED <<prog, pc, data, pad, base, start, end>>
    /\ UNCHANGED compareVars

\* an iteration in which data[i], data[i+1] or data[i+2] raises IndexError:
\* the exception leaves disasm before the line is printed
DisasmIndexError ==
    /\ prog = "disasm" /\ pc = "loop"
    /\ LoopCond
    /\ \/ ~IndexOK(i)
       \/ /\ IndexOK(i)
          /\ GetItem(i) \in DOMAIN OPCODES
          /\ ~OperandReadable(OPCODES[GetItem(i)].size)
    /\ pc' = "IndexError"
    /\ UNCHANGED <<prog, data, pad, base, start, end, i, out>>
    /\ UNCHANGED compareVars

\* the loop condition is false: disasm returns
DisasmReturn ==
    /\ prog = "disasm" /\ pc = "loop"
    /\ ~LoopCond
    /\ pc' = "done"
    /\ UNCHANGED <<prog, data, pad, base, start, end, i, out>>
    /\ UNCHANGED compareVars

-----------------------------------------------------------------------------
(* compare_rom.py: main up to the disasm calls (lines 83-131).  The byte  *)
(* diffs are kept as their offsets: the grouping reads nothing else.     *)

\* the least element of a non-empty set of integers
MinOf(S) == CHOOSE x \in S : \A y \in S : x <= y

\* the elements of a finite set of integers in increasing order
RECURSIVE Ascending(_)
Ascending(S) ==
    IF S = {} THEN <<>> ELSE <<MinOf(S)>> \o Ascending(S \ {MinOf(S)})

\* diffs (line 89): the offsets below min(len(cc65), len(ours)) where the ROMs differ
Diffs ==
    LET n == IF Len(cc65) < Len(ours) THEN Len(cc65) ELSE Len(ours)
    IN  Ascending({k \in 0..(n - 1) : cc65[k + 1] # ours[k + 1]})

\* prg (line 91)
PrgDiffs == SelectSeq(Diffs, LAMBDA d : PrgStart <= d /\ d < PrgStart + PrgBytes)

\* the loop of lines 99-104: ds the diffs still to read, current the open group
RECURSIVE GroupLoop(_, _, _)
GroupLoop(ds, groups, current) ==
    IF ds = <<>> THEN Append(groups, current)
    ELSE IF ds[1] - current[Len(current)] <= MergeGap
    THEN GroupLoop(Tail(ds), groups, Append(current, ds[1]))
    ELSE GroupLoop(Tail(ds), Append(groups, current), <<ds[1]>>)

\* groups (lines 96-105), for non-empty diffs
Groups == GroupLoop(Tail(Diffs), <<>>, <<Diffs[1]>>)

\* largest = max(groups, key=lambda g: len(g)): the first group of the greatest length
Largest ==
    LET g == Groups
        k == MinOf({j \in 1..Len(g) : \A m \in 1..Len(g) : Len(g[m]) <= Len(g[j])})
    IN  g[k]

\* if prg: start_file and span are set and disasm(cc65, start_file, span) starts
MainDisasm ==
    /\ prog = "compare" /\ pc = "main"
    /\ PrgDiffs # <<>>
    /\ start_file' = Largest[1]
    /\ count' = Largest[Len(Largest)] - Largest[1] + Context
    /\ i' = Largest[1]
    /\ pc' = "cc65"
    /\ UNCHANGED <<prog, cc65, ours, cc65_main, ours_main, ci, oi, mismatches>>
    /\ UNCHANGED disasmVars

\* prg is empty: main ends without a disasm call and without the lockstep loop
MainNoPrgDiff ==
    /\ prog = "compare" /\ pc = "main"
    /\ PrgDiffs = <<>>
    /\ pc' = "done"
    /\ UNCHANGED <<prog, i, cc65, ours, start_file, count, cc65_main, ours_main,
                   ci, oi, mismatches>>
    /\ UNCHANGED disasmVars

-----------------------------------------------------------------------------
(* compare_rom.py: disasm(rom, start_file, count), run on cc65 and then on *)
(* ours: by main (lines 133-134), or called on its own on two ROMs         *)

\* the ROM the running disasm call reads
CurRom == IF pc = "cc65" THEN cc65 ELSE ours

\* end = min(start_file + count, len(rom))
RomEnd(rom) ==
    IF start_file + count < Len(rom) THEN start_file + count ELSE Len(rom)

\* n = names.get(op, '?%02X' % op)
NameOf(op) ==
    IF op \in DOMAIN names THEN names[op] ELSE <<"?">> \o FmtX(op, 2)

\* nes = 0x8000 + (i - 16)
NesAddr(k) == NesBase + (k - HeaderSize)

\* the tuple appended to lines (lines 57-63)
RomLine(rom) ==
    LET op     == rom[i + 1]
        n      == NameOf(op)
        length == oplen[op]
    IN  IF length = 3
        THEN <<NesAddr(i), n \o <<" ", "$">> \o FmtX(rom[i + 2] + 256 * rom[i + 3], 4)>>
        ELSE IF length = 2
        THEN <<NesAddr(i), n \o <<" ", "$">> \o FmtX(rom[i + 2], 2)>>
        ELSE <<NesAddr(i), n>>

\* i += length (line 64)
RomAdvance(rom) == i + oplen[rom[i + 1]]

\* the value disasm returns goes to cc65_main, then to ours_main (lines
\* 133-134); main goes on to the lockstep loop, two calls on their own end
Returned(lines) ==
    IF pc = "cc65"
    THEN /\ cc65_main' = lines
         /\ pc' = "ours"
         /\ i' = start_file
         /\ UNCHANGED ours_main
    ELSE /\ ours_main' = lines
         /\ pc' = IF prog = "compare" THEN "lockstep" ELSE "done"
         /\ i' = i
         /\ UNCHANGED cc65_main

CurLines == IF pc = "cc65" THEN cc65_main ELSE ours_main

\* an iteration that appends a line
RomStep ==
    /\ prog \in {"compare", "calls"} /\ pc \in {"cc65", "ours"}
    /\ i < RomEnd(CurRom)
    /\ ~(i + oplen[CurRom[i + 1]] > RomEnd(CurRom))
    /\ IF pc = "cc65"
       THEN cc65_main' = Append(cc65_main, RomLine(cc65)) /\ UNCHANGED ours_main
       ELSE ours_main' = Append(ours_main, RomLine(ours)) /\ UNCHANGED cc65_main
    /\ i' = RomAdvance(CurRom)
    /\ UNCHANGED <<prog, pc, cc65, ours, start_file, count, ci, oi, mismatches>>
    /\ UNCHANGED disasmVars

\* if i + length > end: break
RomBreak ==
    /\ prog \in {"compare", "calls"} /\ pc \in {"cc65", "ours"}
    /\ i < RomEnd(CurRom)
    /\ i + oplen[CurRom[i + 1]] > RomEnd(CurRom)
    /\ Returned(CurLines)
    /\ UNCHANGED <<prog, cc65, ours, start_file, count, ci, oi, mismatches>>
    /\ UNCHANGED disasmVars

\* the loop condition i < end is false
RomReturn ==
    /\ prog \in {"compare", "calls"} /\ pc \in {"cc65", "ours"}
    /\ ~(i < RomEnd(CurRom))
    /\ Returned(CurLines)
    /\ UNCHANGED <<prog, cc65, ours, start_file, count, ci, oi, mismatches>>
    /\ UNCHANGED disasmVars

-----------------------------------------------------------------------------
(* compare_rom.py: the lockstep comparison of main (lines 139-150) *)

LockstepCond == ci < Len(cc65_main) /\ oi < Len(ours_main)

LockstepStep ==
    /\ prog = "compare" /\ pc = "lockstep"
    /\ LockstepCond
    /\ LET cn == normalize(cc65_main[ci + 1][2])
           on == normalize(ours_main[oi + 1][2])
       IN  mismatches' = IF cn # on THEN mismatches + 1 ELSE mismatches
    /\ ci' = ci + 1
    /\ oi' = oi + 1
    /\ UNCHANGED <<prog, pc, i, cc65, ours, start_file, count, cc65_main, ours_main>>
    /\ UNCHANGED disasmVars

LockstepEnd ==
    /\ prog = "compare" /\ pc = "lockstep"
    /\ ~LockstepCond
    /\ pc' = "done"
    /\ UNCHANGED <<prog, i, cc65, ours, start_file, count, cc65_main, ours_main,
                   ci, oi, mismatches>>
    /\ UNCHANGED disasmVars

-----------------------------------------------------------------------------
(* Initial states *)

\* the bytes the enumerated buffers are made of: NOP, LDA #, BPL, INC abs,X
\* (an entry of OPCODES that oplen counts as 1 byte), JMP abs, and the undefined $FF
Bytes == {\hEA, \hA9, \h10, \hFE, \h4C, \hFF}

SeqsUpTo(S, n) == UNION {[1..k -> S] : k \in 0..n}

\* the compare_rom.py variables while disasm.py runs
CompareIdle ==
    /\ cc65 = <<>> /\ ours = <<>> /\ start_file = 0 /\ count = 0
    /\ cc65_main = <<>> /\ ours_main = <<>> /\ ci = 0 /\ oi = 0 /\ mismatches = 0

\* the disasm.py variables while compare_rom.py runs
DisasmIdle ==
    /\ data = <<>> /\ pad = 0 /\ base = 0 /\ start = 0 /\ end = 0 /\ out = <<>>

\* disasm.py as main calls it: base 0x8000; the buffer is a short byte string,
\* alone, after 16 bytes, or at the end of a full 32 KiB PRG; start and end
\* lie around the short byte string, start also below the buffer when pad = 0
InitMain ==
    /\ prog = "disasm" /\ pc = "loop"
    /\ data \in SeqsUpTo(Bytes, MaxLen)
    /\ pad \in {0, 16, PrgSize - Len(data)}
    /\ base = PrgBase
    /\ start \in {base + pad + d : d \in -2..(Len(data) + 1)}
    /\ end \in {start - 1, base + pad + Len(data) - 1, base + pad + Len(data)}
    /\ i = start - base
    /\ out = <<>>
    /\ CompareIdle

\* the other bases the opcode runs use
Bases == {0, \h8010, \hFFF0}

\* disasm.py on one instruction: every byte value as the opcode, alone or
\* followed by operand bytes; every operand byte after a relative branch
RelOpcodes == {\h10, \h30, \h50, \h70, \h90, \hB0, \hD0, \hF0}

InitOpcode ==
    /\ prog = "disasm" /\ pc = "loop"
    /\ data \in {<<b>> \o r : b \in 0..255, r \in SeqsUpTo({\h00, \h90}, 2)}
                \cup {<<b, v>> : b \in RelOpcodes, v \in 0..255}
    /\ pad = 0
    /\ base \in Bases \cup {PrgBase}
    /\ start = base
    /\ end = base + Len(data)
    /\ i = start - base
    /\ out = <<>>
    /\ CompareIdle

\* the bytes the enumerated ROMs are made of: NOP, LDA #, LDA abs, CPX abs,
\* and $FE, which has no name
RomBytes == <<\hEA, \hA9, \hAD, \hEC, \hFE>>

\* the byte that replaces b where the second ROM differs from the first
OtherByte(b) ==
    LET k == CHOOSE j \in 1..Len(RomBytes) : RomBytes[j] = b
    IN  RomBytes[(k % Len(RomBytes)) + 1]

\* the first ROM with the bytes at the offsets D (counted from 1) replaced
Altered(rom, D) ==
    [k \in 1..Len(rom) |-> IF k \in D THEN OtherByte(rom[k]) ELSE rom[k]]

\* compare_rom.py's disasm called on its own: two ROMs of one length, the
\* second differing from the first at any set of offsets, both decoded from
\* start_file over count bytes
InitCalls ==
    /\ prog = "calls" /\ pc = "cc65"
    /\ cc65 \in SeqsUpTo({RomBytes[j] : j \in 1..Len(RomBytes)}, MaxRom)
    /\ \E D \in SUBSET (1..Len(cc65)) : ours = Altered(cc65, D)
    /\ start_file \in {0, 1}
    /\ count \in {2, 50}
    /\ i = start_file
    /\ cc65_main = <<>> /\ ours_main = <<>>
    /\ ci = 0 /\ oi = 0 /\ mismatches = 0
    /\ DisasmIdle

\* an iNES header: "NES", $1A, 2 PRG banks, 1 CHR bank, flags
Header == <<\h4E, \h45, \h53, \h1A, 2, 1, 1, 0, 0, 0, 0, 0, 0, 0, 0, 0>>

\* the header with another flags byte
HeaderOther == [Header EXCEPT ![7] = 0]

\* the bytes after the enumerated ones: none, or 18 times LDA $ADAD, which
\* reaches past start_file + span
Trailers == {<<>>, [k \in 1..54 |-> \hAD]}

\* compare_rom.py as main runs it: two files of one length, header first;
\* the second differs from the first at any set of the enumerated offsets
\* and, or not, in the header
InitCompare ==
    /\ prog = "compare" /\ pc = "main"
    /\ \E body \in SeqsUpTo({RomBytes[j] : j \in 1..Len(RomBytes)}, MaxBody) :
       \E D \in SUBSET (1..Len(body)) :
       \E trailer \in Trailers :
       \E h \in {Header, HeaderOther} :
          /\ cc65 = Header \o body \o trailer
          /\ ours = h \o Altered(body, D) \o trailer
    /\ start_file = 0 /\ count = 0
    /\ i = 0
    /\ cc65_main = <<>> /\ ours_main = <<>>
    /\ ci = 0 /\ oi = 0 /\ mismatches = 0
    /\ DisasmIdle

Init == InitMain \/ InitOpcode \/ InitCalls \/ InitCompare

Next ==
    \/ DisasmKnown
    \/ DisasmUnknown
    \/ DisasmIndexError
    \/ DisasmReturn
    \/ MainDisasm
    \/ MainNoPrgDiff
    \/ RomStep
    \/ RomBreak
    \/ RomReturn
    \/ LockstepStep
    \/ LockstepEnd

Spec == Init /\ [][Next]_vars


-----------------------------------------------------------------------------
(* Definitions the properties are stated with *)

Terminated == pc \in {"done", "IndexError"}

Decoding == pc \in {"loop", "cc65", "ours"}

\* the value of a hex digit
HexValue(c) == (CHOOSE k \in 1..16 : HexChars[k] = c) - 1

\* the number a string of hex digits, with an optional sign, stands for
RECURSIVE ParseDigits(_, _)
ParseDigits(s, acc) ==
    IF s = <<>> THEN acc ELSE ParseDigits(Tail(s), 16 * acc + HexValue(s[1]))

ParseHex(s) ==
    IF s # <<>> /\ s[1] = "-" THEN 0 - ParseDigits(Tail(s), 0) ELSE ParseDigits(s, 0)

\* the signed 8-bit value of a byte
SignedByte(v) == ((v + 128) % 256) - 128

\* the opcode at the cursor has length L in OPCODES and fewer than L bytes remain
Truncated ==
    /\ prog = "disasm"
    /\ 0 <= i /\ i < DataLen /\ i < stop
    /\ DataAt(i) \in DOMAIN OPCODES
    /\ i + OPCODES[DataAt(i)].size > DataLen

\* start at or past the end of the buffer, or end below start
InvalidRange ==
    /\ prog = "disasm"
    /\ (start - base >= DataLen \/ end < start)

-----------------------------------------------------------------------------
(* C1: when the opcode at the cursor is defined with length L and fewer than *)
(* L bytes remain, the run of disasm.py's disasm stops cleanly: it raises no *)
(* exception.  (Stated as the claim states it; the code violates it.)        *)
C1_TruncatedStopsCleanly ==
    Truncated => pc # "IndexError"

(* C2, as stated: an invalid range ends the run with a distinguished error *)
(* outcome, not with a normal return.                                      *)
C2_InvalidRangeSignaled ==
    (InvalidRange /\ pc # "loop") => pc # "done"

(* C2, amended: with an invalid range disasm prints nothing, raises nothing *)
(* and leaves the cursor where it started: the only outcome is the normal   *)
(* return with an empty result.                                             *)
C2_InvalidRangeReturnsEmpty ==
    InvalidRange => /\ out = <<>>
                    /\ pc \in {"loop", "done"}
                    /\ i = start - base

C2_Witness ==
    /\ InvalidRange /\ pc = "done"
    /\ end < start /\ 0 <= start - base /\ start - base < DataLen

\* the bytes between the cursor and the end of the running decode loop
Remaining ==
    LET limit == IF prog = "disasm"
                 THEN (IF stop < DataLen THEN stop ELSE DataLen)
                 ELSE RomEnd(CurRom)
    IN  IF limit > i THEN limit - i ELSE 0

(* C3: every iteration of a decode loop (both scripts) ends the run or moves *)
(* the cursor forward by 1, 2 or 3 bytes, and the number of bytes left       *)
(* before the end of the loop, never negative, strictly decreases: no run    *)
(* has infinitely many iterations.                                           *)
C3_ForwardProgress ==
    [][Decoding => (pc' # pc \/ ((i' - i) \in 1..3 /\ Remaining' < Remaining))]_vars

C3_Witness ==
    /\ prog = "disasm" /\ pc = "done"
    /\ \E j \in 1..Len(out) : out[j].size = 3
    /\ \E j \in 1..Len(out) : out[j].size = 1

(* C4: the first address of a run is the start cursor mapped into the       *)
(* address space, each next address is the previous address plus the        *)
(* previous instruction's length, so addresses strictly increase, and the   *)
(* running cursor maps to the address after the last instruction.           *)
C4_AddressesFollowCursor ==
    /\ prog = "disasm" =>
          /\ out = <<>> => i = start - base
          /\ out # <<>> =>
                /\ out[1].addr = base + (start - base)
                /\ base + i = out[Len(out)].addr + out[Len(out)].size
          /\ \A k \in 1..(Len(out) - 1) :
                /\ out[k + 1].addr = out[k].addr + out[k].size
                /\ out[k + 1].addr > out[k].addr
    /\ prog \in {"compare", "calls"} =>
          \A side \in {<<cc65, cc65_main>>, <<ours, ours_main>>} :
             LET rom   == side[1]
                 lines == side[2]
                 OffsetOf(nes) == nes - 32768 + 16
             IN  /\ lines # <<>> => lines[1][1] = 32768 + (start_file - 16)
                 /\ \A k \in 1..(Len(lines) - 1) :
                       /\ lines[k + 1][1] =
                             lines[k][1] + oplen[rom[OffsetOf(lines[k][1]) + 1]]
                       /\ lines[k + 1][1] > lines[k][1]

C4_Witness ==
    /\ prog = "disasm" /\ pc = "done"
    /\ Len(out) >= 3
    /\ \E j \in 1..Len(out) : out[j].size = 2

(* C5: in disasm.py's disasm with the cursor inside the buffer: an opcode of *)
(* OPCODES with length L, when L bytes are available, is printed with         *)
(* exactly the bytes data[i..i+L-1] and moves the cursor by L; a byte with    *)
(* no entry is printed as one .byte line of length 1, moves the cursor by 1,  *)
(* and the loop goes on.                                                      *)
C5_LengthFidelity ==
    [][(prog = "disasm" /\ pc = "loop" /\ LoopCond /\ 0 <= i) =>
          IF DataAt(i) \in DOMAIN OPCODES
          THEN LET L == OPCODES[DataAt(i)].size IN
               i + L <= DataLen =>
                  /\ pc' = "loop"
                  /\ i' = i + L
                  /\ Len(out') = Len(out) + 1
                  /\ SubSeq(out', 1, Len(out)) = out
                  /\ out'[Len(out')].raw = [k \in 1..L |-> DataAt(i + k - 1)]
                  /\ out'[Len(out')].mode # "data"
          ELSE /\ pc' = "loop"
               /\ i' = i + 1
               /\ Len(out') = Len(out) + 1
               /\ SubSeq(out', 1, Len(out)) = out
               /\ out'[Len(out')].raw = <<DataAt(i)>>
               /\ out'[Len(out')].name = <<".", "b", "y", "t", "e">>
               /\ out'[Len(out')].size = 1
      ]_vars

C5_Witness ==
    /\ prog = "disasm"
    /\ \E j \in 1..Len(out) : \E k \in 1..Len(out) :
          /\ j < k
          /\ out[j].mode # "data" /\ Len(out[j].raw) = 2
          /\ out[k].mode = "data"

(* C6: a relative branch is printed with the target a + 2 + d, d the signed *)
(* value of its operand byte; BPL $FE at $8010 is printed with $8010.       *)
C6_RelativeTarget ==
    prog = "disasm" =>
       \A k \in 1..Len(out) :
          LET r == out[k] IN
          /\ (r.mode = "rel") = (r.op \in RelOpcodes)
          /\ r.mode = "rel" =>
                /\ r.val \in 0..255
                /\ SubSeq(r.operand, 1, 2) = <<" ", "$">>
                /\ ParseHex(SubSeq(r.operand, 3, Len(r.operand)))
                      = r.addr + 2 + SignedByte(r.val)
                /\ SignedByte(r.val) \in -128..127
                /\ SignedByte(r.val) = IF r.val < 128 THEN r.val ELSE r.val - 256
          /\ (r.op = 16 /\ r.val = 254 /\ r.addr = 32784) =>
                r.operand = <<" ", "$", "8", "0", "1", "0">>

C6_Witness ==
    /\ prog = "disasm"
    /\ \E k \in 1..Len(out) :
          /\ out[k].op = 16 /\ out[k].val = 254 /\ out[k].addr = 32784
          /\ out[k].operand = <<" ", "$", "8", "0", "1", "0">>

\* the 0-based offsets of the operand bytes of the 3-byte instructions that
\* disasm(cc65, start_file, count) decoded
OperandOffsets ==
    UNION {LET o == cc65_main[k][1] - 32768 + 16 IN
           IF oplen[cc65[o + 1]] = 3 THEN {o + 1, o + 2} ELSE {}
           : k \in 1..Len(cc65_main)}

SameExceptOperands ==
    /\ Len(cc65) = Len(ours)
    /\ \A o \in 0..(Len(cc65) - 1) :
          cc65[o + 1] # ours[o + 1] => o \in OperandOffsets

(* C7: two ROMs of one length that differ only in operand bytes of 3-byte   *)
(* instructions, decoded by compare_rom.py's disasm from one start over one *)
(* count, give sequences of one length whose texts are pairwise equal after *)
(* normalize, so that a walk in lockstep counts no mismatch.                *)
(* (Stated as the claim states it; the code violates it.)                   *)
C7_RelocatedRomsCompareEqual ==
    (prog = "calls" /\ pc = "done" /\ SameExceptOperands) =>
       /\ Len(cc65_main) = Len(ours_main)
       /\ \A k \in 1..Len(cc65_main) :
             normalize(cc65_main[k][2]) = normalize(ours_main[k][2])

(* C8: normalize is idempotent on every text compare_rom.py's disasm       *)
(* appends to its lines (and so on every output of normalize): normalizing *)
(* the normalized text changes nothing.                                    *)
C8_NormalizeIdempotent ==
    [][\A side \in {<<cc65_main, cc65_main'>>, <<ours_main, ours_main'>>} :
          side[2] # side[1] =>
             \A k \in (Len(side[1]) + 1)..Len(side[2]) :
                normalize(normalize(side[2][k][2])) = normalize(side[2][k][2])
      ]_vars

C8_Witness ==
    /\ prog = "compare" /\ pc = "done"
    /\ \E k \in 1..Len(cc65_main) :
          /\ normalize(cc65_main[k][2]) # cc65_main[k][2]
          /\ normalize(cc65_main[k][2]) = <<"L", "D", "A", " ", "$", "?", "?", "?", "?">>
    /\ \E k \in 1..Len(ours_main) :
          /\ Len(ours_main[k][2]) = 9
          /\ normalize(ours_main[k][2]) = ours_main[k][2]

(* C9: oplen agrees with OPCODES on the length of every byte disasm.py   *)
(* decodes: the entry's length where there is one, 1 where there is none, *)
(* so that both decoders cut the buffer at the same places.               *)
(* (Stated as the claim states it; the code violates it.)                 *)
C9_TablesAgree ==
    prog = "disasm" =>
       \A k \in 1..Len(out) :
          /\ out[k].size =
                IF out[k].op \in DOMAIN OPCODES THEN OPCODES[out[k].op].size ELSE 1
          /\ oplen[out[k].op] = out[k].size

(* C10: run as main runs it (base $8000, at most $8000 bytes, start >=     *)
(* $8000), every printed address and every resolved branch target is in    *)
(* 0..$FFFF and is printed with exactly 4 hex digits.                      *)
(* (Stated as the claim states it; the code violates it.)                  *)
C10_SixteenBit ==
    (prog = "disasm" /\ base = 32768 /\ DataLen <= 32768 /\ start >= 32768) =>
       \A k \in 1..Len(out) :
          LET r == out[k] IN
          /\ r.addr \in 0..65535
          /\ SubSeq(r.text, 6, 6) = <<":">>
          /\ r.mode = "rel" =>
                /\ ParseHex(SubSeq(r.operand, 3, Len(r.operand))) \in 0..65535
                /\ Len(r.operand) = 6
=============================================================================
